---- MODULE Spec2Model ----
(***************************************************************************)
(* Lab7 multi-agent fraud detection system                                 *)
(* (src/Lab7/multi_agent_fraud_system.py).                                 *)
(*                                                                         *)
(* Three FastAPI services.  The coordinator (PrimaryFraudDetectionAgent)   *)
(* answers POST /analyze_transaction by building a prompt and calling      *)
(* self.agent(prompt): one strands Agent object, created once in __init__  *)
(* and given the A2A client tools for the two specialist URLs.  Whether    *)
(* and when a specialist is contacted is decided inside that call by the   *)
(* language model; the handler itself only wraps the returned text in an   *)
(* AnalysisResponse, or turns any exception into HTTP 500.                  *)
(* The language model is an external collaborator: its choices (which      *)
(* tools to call, what text to return) are inputs drawn with \E.           *)
(***************************************************************************)
EXTENDS Integers, Sequences, FiniteSets, TLC

\* Number of /analyze_transaction requests the callers send.
NumRequests == 2

Requests == 1..NumRequests

\* self.pattern_agent_url, self.risk_agent_url: the two specialist services.
Services == {"risk_assessment", "pattern_analysis"}

\* What the final text of the coordinator's agent may state as determination
\* (system prompt: APPROVED/DECLINED/REVIEW); "NONE" is a text without one.
Decisions == {"APPROVED", "REVIEW", "DECLINED", "NONE"}

\* What an answer of the Risk Assessment Service may say: a risk level and
\* whether the merchant is blacklisted.
RiskPayloads ==
    {[level |-> "LOW", flags |-> {}], [level |-> "MEDIUM", flags |-> {}],
     [level |-> "HIGH", flags |-> {}], [level |-> "HIGH", flags |-> {"blacklisted"}]}

\* What an answer of the Pattern Analysis Service may say: no finding, an
\* infeasible geographic finding, or a spending anomaly.
PatternPayloads ==
    {[level |-> "NA", flags |-> {}], [level |-> "NA", flags |-> {"geo_infeasible"}],
     [level |-> "NA", flags |-> {"anomaly"}]}

VARIABLES
    pc,          \* pc[r]: position of request r's handler
    has_context, \* has_context[r]: request.user_context is given
    calls,       \* calls[r][s]: state of the A2A tool call of r to service s
    results,     \* results[r]: tool results of r, in the order they arrived
    response,    \* response[r]: what the handler returned to the caller
    cancelled,   \* cancelled[r]: the caller of r gave up waiting
    messages,    \* self.agent's conversation: one entry per prompt received
    BLACKLISTED_MERCHANTS, \* fraud_mcp_tools.py: module-level set of names
    HIGH_RISK_LOCATIONS,   \* fraud_mcp_tools.py: module-level set of locations
    MERCHANT_RISK_SCORES,  \* fraud_mcp_tools.py: category -> risk, in tenths
    last_call,   \* the MCP tool call served last: tool, arguments, result
    tool_log,    \* the tool calls served so far, oldest first (when recorded)
    service_call \* the request in flight at a specialist service, and its answer

\* The state of the coordinator service.
coordVars == <<pc, has_context, calls, results, response, cancelled, messages>>

\* The module-level tables of the MCP tool server.
tables == <<BLACKLISTED_MERCHANTS, HIGH_RISK_LOCATIONS, MERCHANT_RISK_SCORES>>

\* The state of the MCP tool server (src/Lab7/fraud_mcp_tools.py).
toolVars == <<BLACKLISTED_MERCHANTS, HIGH_RISK_LOCATIONS, MERCHANT_RISK_SCORES,
              last_call, tool_log>>

\* The state of a specialist service seen from its own endpoint.
serviceVars == <<service_call>>

vars == <<pc, has_context, calls, results, response, cancelled, messages,
          BLACKLISTED_MERCHANTS, HIGH_RISK_LOCATIONS, MERCHANT_RISK_SCORES,
          last_call, tool_log, service_call>>

\* BLACKLISTED_MERCHANTS as the module defines it.
BLACKLISTED_MERCHANTS_INIT ==
    {"Suspicious Online Store", "Fake Electronics Ltd", "Scam Services Inc",
     "Fraudulent Marketplace"}

\* HIGH_RISK_LOCATIONS as the module defines it.
HIGH_RISK_LOCATIONS_INIT == {"Unknown", "Tor Network", "VPN Location"}

\* MERCHANT_RISK_SCORES as the module defines it; risks 0.1 .. 0.9 are kept
\* in tenths (0.7 is 7).
MERCHANT_RISK_SCORES_INIT ==
    ("grocery" :> 1) @@ ("restaurant" :> 2) @@ ("gas_station" :> 3) @@
    ("online_retail" :> 4) @@ ("electronics" :> 6) @@ ("cash_advance" :> 9) @@
    ("cryptocurrency" :> 8) @@ ("luxury_goods" :> 7) @@ ("online_services" :> 5)

\* No tool call has been served yet.
NoCall == [tool |-> "none", args |-> <<>>, result |-> <<>>, done |-> TRUE]

\* The tool server right after the module is imported.
ToolInit ==
    /\ BLACKLISTED_MERCHANTS = BLACKLISTED_MERCHANTS_INIT
    /\ HIGH_RISK_LOCATIONS = HIGH_RISK_LOCATIONS_INIT
    /\ MERCHANT_RISK_SCORES = MERCHANT_RISK_SCORES_INIT
    /\ last_call = NoCall
    /\ tool_log = <<>>

\* No request has reached a specialist endpoint.
NoServiceCall == [service |-> "none", transactions |-> <<>>, status |-> 0]

ServiceInit == service_call = NoServiceCall

NoResponse == [status |-> 0, decision |-> "NONE", agents_consulted |-> {},
               confidence_score |-> 0]

\* The coordinator service right after construction.
CoordinatorInit ==
    /\ pc = [r \in Requests |-> "idle"]
    /\ has_context = [r \in Requests |-> FALSE]
    /\ calls = [r \in Requests |-> [s \in Services |-> "none"]]
    /\ results = [r \in Requests |-> <<>>]
    /\ response = [r \in Requests |-> NoResponse]
    /\ cancelled = [r \in Requests |-> FALSE]
    /\ messages = <<>>

Init == CoordinatorInit /\ ToolInit /\ ServiceInit

(***************************************************************************)
(* Specialist services: analyze_patterns and assess_risk.                   *)
(***************************************************************************)

\* What a specialist's answer says, for the service that gave it.
Payloads(s) == IF s = "risk_assessment" THEN RiskPayloads ELSE PatternPayloads

\* An entry of results[r]: ok is FALSE for an HTTP 500 of the specialist.
ToolResult(s, ok, p) == [svc |-> s, ok |-> ok, level |-> p.level, flags |-> p.flags]

ErrorPayload == [level |-> "NA", flags |-> {}]

\* The coordinator's agent uses its A2A tool for service s (at most once per
\* request here).  Nothing in the handler issues or orders these calls.
CallSpecialist(r, s) ==
    /\ pc[r] = "agent"
    /\ calls[r][s] = "none"
    /\ calls' = [calls EXCEPT ![r][s] = "inflight"]
    /\ UNCHANGED <<pc, has_context, results, response, cancelled, messages>>
    /\ UNCHANGED toolVars
    /\ UNCHANGED serviceVars

\* The specialist's handler returns its AnalysisResponse.
SpecialistRespond(r, s) ==
    /\ calls[r][s] = "inflight"
    /\ \E p \in Payloads(s) :
          results' = [results EXCEPT ![r] = Append(@, ToolResult(s, TRUE, p))]
    /\ calls' = [calls EXCEPT ![r][s] = "done"]
    /\ UNCHANGED <<pc, has_context, response, cancelled, messages>>
    /\ UNCHANGED toolVars
    /\ UNCHANGED serviceVars

\* The specialist's handler catches an exception and raises HTTPException(500).
SpecialistFail(r, s) ==
    /\ calls[r][s] = "inflight"
    /\ results' = [results EXCEPT ![r] = Append(@, ToolResult(s, FALSE, ErrorPayload))]
    /\ calls' = [calls EXCEPT ![r][s] = "done"]
    /\ UNCHANGED <<pc, has_context, response, cancelled, messages>>
    /\ UNCHANGED toolVars
    /\ UNCHANGED serviceVars

\* The specialist never answers: its own self.agent(...) call does not return.
\* The call stays open; no code on either side bounds the wait.
SpecialistHang(r, s) ==
    /\ calls[r][s] = "inflight"
    /\ calls' = [calls EXCEPT ![r][s] = "hung"]
    /\ UNCHANGED <<pc, has_context, results, response, cancelled, messages>>
    /\ UNCHANGED toolVars
    /\ UNCHANGED serviceVars

(***************************************************************************)
(* Coordinator: PrimaryFraudDetectionAgent.analyze_transaction.            *)
(***************************************************************************)

\* AnalysisResponse of the coordinator: the text of the agent (of which the
\* model keeps the determination it states) and three literals.
AnalysisResponse(text) ==
    [status |-> 200, decision |-> text,
     agents_consulted |-> {"risk_assessment", "pattern_analysis"},
     confidence_score |-> 95]

\* HTTPException(status_code=500, detail=str(e))
HTTPException == [status |-> 500, decision |-> "NONE", agents_consulted |-> {},
                  confidence_score |-> 0]

\* The handler is entered: it builds the prompt (the user context is added
\* when given) and calls self.agent(prompt), which appends the prompt to the
\* conversation of the one Agent object of the service.
AnalyzeTransaction(r, ctx) ==
    /\ pc[r] = "idle"
    /\ pc' = [pc EXCEPT ![r] = "agent"]
    /\ has_context' = [has_context EXCEPT ![r] = ctx]
    /\ messages' = Append(messages, r)
    /\ UNCHANGED <<calls, results, response, cancelled>>
    /\ UNCHANGED toolVars
    /\ UNCHANGED serviceVars

\* self.agent(prompt) returns a text; the handler returns the response.
AgentReturn(r, text) ==
    /\ pc[r] = "agent"
    /\ \A s \in Services : calls[r][s] \in {"none", "done"}
    /\ pc' = [pc EXCEPT ![r] = "done"]
    /\ response' = [response EXCEPT ![r] = AnalysisResponse(text)]
    /\ UNCHANGED <<has_context, calls, results, cancelled, messages>>
    /\ UNCHANGED toolVars
    /\ UNCHANGED serviceVars

\* self.agent(prompt) raises; except Exception turns it into HTTP 500.
AgentRaise(r) ==
    /\ pc[r] = "agent"
    /\ \A s \in Services : calls[r][s] \in {"none", "done"}
    /\ pc' = [pc EXCEPT ![r] = "done"]
    /\ response' = [response EXCEPT ![r] = HTTPException]
    /\ UNCHANGED <<has_context, calls, results, cancelled, messages>>
    /\ UNCHANGED toolVars
    /\ UNCHANGED serviceVars

\* The caller gives up (closes the connection) while a specialist call of
\* its request is in flight.  The
\* handler is a plain def run to completion in a worker thread: no code
\* observes the disconnect.
Cancel(r) ==
    /\ pc[r] = "agent"
    /\ ~cancelled[r]
    /\ \E s \in Services : calls[r][s] = "inflight"
    /\ cancelled' = [cancelled EXCEPT ![r] = TRUE]
    /\ UNCHANGED <<pc, has_context, calls, results, response, messages>>
    /\ UNCHANGED toolVars
    /\ UNCHANGED serviceVars

Next ==
    \/ \E r \in Requests, ctx \in BOOLEAN : AnalyzeTransaction(r, ctx)
    \/ \E r \in Requests, s \in Services : CallSpecialist(r, s)
    \/ \E r \in Requests, s \in Services : SpecialistRespond(r, s)
    \/ \E r \in Requests, s \in Services : SpecialistFail(r, s)
    \/ \E r \in Requests, s \in Services : SpecialistHang(r, s)
    \/ \E r \in Requests, text \in Decisions : AgentReturn(r, text)
    \/ \E r \in Requests : AgentRaise(r)
    \/ \E r \in Requests : Cancel(r)

Spec == Init /\ [][Next]_vars

\* Every step of a request that can be taken is eventually taken: the
\* servers keep running, and a specialist that can still answer does.
RequestNext(r) ==
    \/ \E ctx \in BOOLEAN : AnalyzeTransaction(r, ctx)
    \/ \E s \in Services : SpecialistRespond(r, s) \/ SpecialistFail(r, s)
    \/ \E text \in Decisions : AgentReturn(r, text)
    \/ AgentRaise(r)

FairSpec == Spec /\ \A r \in Requests : WF_vars(RequestNext(r))

(***************************************************************************)
(* Vocabulary of the claims.                                                *)
(***************************************************************************)

\* Service s answered request r: a tool result with ok.
Responded(r, s) ==
    \E i \in 1..Len(results[r]) : results[r][i].svc = s /\ results[r][i].ok

\* The call of r to s ended in a service error.
CallFailed(r, s) ==
    \E i \in 1..Len(results[r]) : results[r][i].svc = s /\ ~results[r][i].ok

\* The call of r to s was issued.
Issued(r, s) == calls[r][s] # "none"

\* The secondary signals among the answers r received.
Signals(r) == UNION {results[r][i].flags : i \in 1..Len(results[r])}

\* The risk level the Risk Assessment Service gave for r (when it answered).
RiskLevel(r) ==
    LET i == CHOOSE j \in 1..Len(results[r]) :
                 results[r][j].svc = "risk_assessment" /\ results[r][j].ok
    IN results[r][i].level

\* The terminal state the caller is told: a returned AnalysisResponse is a
\* rendered result, an HTTP 500 a failure.  No third form of response exists.
Outcome(r) ==
    IF response[r].status = 200 THEN "DECIDED"
    ELSE IF response[r].status = 500 THEN "FAILED"
    ELSE "PENDING"

\* The conversation the model was given for r: all of self.agent's messages
\* up to and including r's prompt.
ConversationRead(r) ==
    LET i == CHOOSE j \in 1..Len(messages) : messages[j] = r
    IN SubSeq(messages, 1, i)

\* The decision rule of the coordinator's design.
DecisionRule(level, signals) ==
    IF level = "HIGH" /\ signals # {} THEN "DECLINED"
    ELSE IF level \in {"MEDIUM", "HIGH"} THEN "REVIEW"
    ELSE "APPROVED"

(***************************************************************************)
(* Claims.                                                                  *)
(***************************************************************************)

\* C1: every accepted request eventually reaches a terminal state that is
\* reported to the caller, whatever the specialists do.  (Checked under
\* FairSpec; refuted: a request whose specialist never answers stays in
\* self.agent(...) forever.)
C1_EveryRequestTerminates ==
    \A r \in Requests : (pc[r] = "agent") ~> (pc[r] = "done")

\* C2: when exactly one specialist call of a request fails and the other
\* answers, the request ends with a result (not a hard failure) in which only
\* the failed branch is absent.
C2_OneBranchAbsent ==
    \A r \in Requests : \A s, o \in Services :
        (pc[r] = "done" /\ s # o /\ CallFailed(r, s) /\ Responded(r, o))
            => /\ response[r].status = 200
               /\ s \notin response[r].agents_consulted
               /\ o \in response[r].agents_consulted

\* C3: when the risk call fails and the pattern call succeeds, the final
\* decision is REVIEW, never APPROVED or DECLINED.
C3_PatternOnlyIsReview ==
    \A r \in Requests :
        (pc[r] = "done" /\ response[r].status = 200
           /\ CallFailed(r, "risk_assessment") /\ Responded(r, "pattern_analysis"))
            => response[r].decision = "REVIEW"

\* C4: when neither specialist answers (both calls failed), the request ends
\* DEGRADED and carries no decision.
C4_NeitherIsDegraded ==
    \A r \in Requests :
        (pc[r] = "done" /\ \A s \in Services : CallFailed(r, s))
            => /\ Outcome(r) = "DEGRADED"
               /\ response[r].decision = "NONE"

\* C5: when the Risk Assessment Service answered, the decision is the one the
\* decision rule gives for (risk level, secondary signals).
C5_DecisionFollowsRule ==
    \A r \in Requests :
        (pc[r] = "done" /\ response[r].status = 200 /\ Responded(r, "risk_assessment"))
            => response[r].decision = DecisionRule(RiskLevel(r), Signals(r))

\* C6: agents_consulted lists a specialist iff that specialist answered for
\* this request.
C6_AuditListsResponders ==
    \A r \in Requests :
        (pc[r] = "done" /\ response[r].status = 200)
            => response[r].agents_consulted = {s \in Services : Responded(r, s)}

\* C7: two requests that got the same pair of specialist answers, in
\* opposite orders of arrival, get the same result.
C7_MergeIgnoresArrivalOrder ==
    \A r1, r2 \in Requests :
        (/\ pc[r1] = "done" /\ pc[r2] = "done"
         /\ response[r1].status = 200 /\ response[r2].status = 200
         /\ Len(results[r1]) = 2 /\ Len(results[r2]) = 2
         /\ results[r1][1].ok /\ results[r1][2].ok
         /\ results[r2] = <<results[r1][2], results[r1][1]>>)
            => response[r1] = response[r2]

\* C8: a finished request had its risk call issued, and its pattern call
\* issued iff a context was available.
C8_DispatchRule ==
    \A r \in Requests :
        pc[r] = "done"
            => /\ Issued(r, "risk_assessment")
               /\ Issued(r, "pattern_analysis") <=> has_context[r]

\* C9: once the caller has cancelled, a call in flight is cancelled: it does
\* not deliver an answer to the request (it is absent, like a timeout).
C9_CancelledCallIsAbsent ==
    [][\A r \in Requests, s \in Services :
          (cancelled[r] /\ calls[r][s] = "inflight")
              => (calls'[r][s] = "inflight" \/ ~Responded(r, s)')]_vars

\* C10: requests share no mutable state: what is read while r is handled
\* was written while r was handled.
C10_NoSharedState ==
    \A r \in Requests :
        pc[r] # "idle"
            => \A i \in 1..Len(ConversationRead(r)) : ConversationRead(r)[i] = r

(***************************************************************************)
(* MCP tool server (src/Lab7/fraud_mcp_tools.py): four tools registered    *)
(* on one FastMCP server.  Each tool is a function of its arguments and    *)
(* of the module-level tables.  Risk points are kept in tenths of a point  *)
(* (17.5 points is 175), table risks in tenths (0.7 is 7), so that every   *)
(* value the code computes for the inputs below is an exact integer.       *)
(***************************************************************************)

Min(a, b) == IF a <= b THEN a ELSE b

\* amount_ratio > k, for amount_ratio = amount / user_avg_spending when the
\* baseline is positive and 1 otherwise.
RatioExceeds(amount, user_avg_spending, k) ==
    IF user_avg_spending > 0 THEN amount > k * user_avg_spending ELSE 1 > k

\* The amount factor with inclusive boundaries (>= instead of >).
AmountRiskInclusive(amount, user_avg_spending) ==
    IF user_avg_spending > 0 /\ amount >= 10 * user_avg_spending THEN 300
    ELSE IF user_avg_spending > 0 /\ amount >= 5 * user_avg_spending THEN 200
    ELSE IF user_avg_spending > 0 /\ amount >= 2 * user_avg_spending THEN 100
    ELSE 0

\* Amount-based risk (0-30 points).
AmountRisk(amount, user_avg_spending) ==
    IF RatioExceeds(amount, user_avg_spending, 10) THEN 300
    ELSE IF RatioExceeds(amount, user_avg_spending, 5) THEN 200
    ELSE IF RatioExceeds(amount, user_avg_spending, 2) THEN 100
    ELSE 0

\* The table lookup with the default 0.9 for a category not in the table.
CategoryRiskDefaultHigh(merchant_category) ==
    IF merchant_category \in DOMAIN MERCHANT_RISK_SCORES
    THEN MERCHANT_RISK_SCORES[merchant_category]
    ELSE 9

\* MERCHANT_RISK_SCORES.get(merchant_category, 0.5), in tenths.
CategoryRisk(merchant_category) ==
    IF merchant_category \in DOMAIN MERCHANT_RISK_SCORES
    THEN MERCHANT_RISK_SCORES[merchant_category]
    ELSE 5

\* The merchant factor of the default risk 0.5, whatever the category.
MerchantRiskDefault(merchant_category) == 5 * 25

\* The merchant factor with the weight 30 instead of 25.
MerchantRiskTimes30(merchant_category) == CategoryRisk(merchant_category) * 30

\* Merchant category risk (0-25 points): table risk times 25.
MerchantRisk(merchant_category) == CategoryRisk(merchant_category) * 25

\* The location factor without the final min(location_risk, 20).
LocationRiskUncapped(location, is_international) ==
    (IF location \in HIGH_RISK_LOCATIONS THEN 200 ELSE 0)
        + (IF is_international THEN 100 ELSE 0)

\* The location factor without the 10 points of an international transaction.
LocationRiskNoFlag(location, is_international) ==
    IF location \in HIGH_RISK_LOCATIONS THEN 200 ELSE 0

\* Location risk (0-20 points): 20 for a high-risk location, plus 10 for an
\* international transaction, capped at 20.
LocationRisk(location, is_international) ==
    LET base == IF location \in HIGH_RISK_LOCATIONS THEN 200 ELSE 0
        location_risk == IF is_international THEN base + 100 ELSE base
    IN  Min(location_risk, 200)

\* The time factor with inclusive boundaries (<= 6, >= 23, <= 8, >= 22).
TimeRiskInclusive(time_hour) ==
    IF time_hour <= 6 \/ time_hour >= 23 THEN 150
    ELSE IF time_hour <= 8 \/ time_hour >= 22 THEN 80
    ELSE 0

\* Time-based risk (0-15 points).
TimeRisk(time_hour) ==
    IF time_hour < 6 \/ time_hour > 23 THEN 150
    ELSE IF time_hour < 8 \/ time_hour > 22 THEN 80
    ELSE 0

\* The international factor left out.
InternationalRiskNone(is_international) == 0

\* The international factor counted twice.
InternationalRiskDouble(is_international) == IF is_international THEN 200 ELSE 0

\* International transaction risk (0-10 points).
InternationalRisk(is_international) == IF is_international THEN 100 ELSE 0

\* The level with exclusive thresholds (> instead of >=).
risk_level_exclusive(total_risk) ==
    IF total_risk > 700 THEN "HIGH"
    ELSE IF total_risk > 400 THEN "MEDIUM"
    ELSE "LOW"

\* Determine risk level from the capped total.
risk_level(total_risk) ==
    IF total_risk >= 700 THEN "HIGH"
    ELSE IF total_risk >= 400 THEN "MEDIUM"
    ELSE "LOW"

\* calculate_risk_score(amount, merchant_category, location, time_hour,
\* user_avg_spending, is_international), a being the record of arguments.
\* round(total_risk, 2) leaves a multiple of 0.5 as it is.
calculate_risk_score(a) ==
    LET risk_factors ==
            [amount_risk |-> AmountRisk(a.amount, a.user_avg_spending),
             merchant_risk |-> MerchantRisk(a.merchant_category),
             location_risk |-> LocationRisk(a.location, a.is_international),
             time_risk |-> TimeRisk(a.time_hour),
             international_risk |-> InternationalRisk(a.is_international)]
        total_risk ==
            Min(risk_factors.amount_risk + risk_factors.merchant_risk
                + risk_factors.location_risk + risk_factors.time_risk
                + risk_factors.international_risk, 1000)
    IN  [risk_score |-> total_risk,
         risk_level |-> risk_level(total_risk),
         risk_factors |-> risk_factors,
         max_possible_score |-> 1000]

\* check_merchant_status(merchant_name, merchant_category).  category_risk is
\* in tenths, so the code's 0.7 is 7.
check_merchant_status(a) ==
    LET is_blacklisted == a.merchant_name \in BLACKLISTED_MERCHANTS
        category_risk == CategoryRisk(a.merchant_category)
    IN  [merchant_name |-> a.merchant_name,
         is_blacklisted |-> is_blacklisted,
         category_risk_score |-> category_risk,
         verification_status |->
             IF ~is_blacklisted /\ category_risk < 7 THEN "verified"
             ELSE "unverified",
         risk_level |->
             IF is_blacklisted \/ category_risk > 7 THEN "HIGH" ELSE "LOW"]

(***************************************************************************)
(* detect_spending_anomalies.  Amounts are in tenths of a dollar.  For a   *)
(* history h of n amounts with sum S, and a current amount c, the code's   *)
(* z-score is d / sqrt(V) with d = n*c - S and V = n*sum(x^2) - S^2        *)
(* (n^2 times the population variance), so every comparison of |z| with a  *)
(* rational p/q is the integer comparison of q^2 d^2 with p^2 V.           *)
(***************************************************************************)

RECURSIVE SumSeq(_)
SumSeq(s) == IF s = <<>> THEN 0 ELSE Head(s) + SumSeq(Tail(s))

RECURSIVE SumSquares(_)
SumSquares(s) == IF s = <<>> THEN 0 ELSE Head(s) * Head(s) + SumSquares(Tail(s))

Sign(x) == IF x > 0 THEN 1 ELSE IF x < 0 THEN -1 ELSE 0

\* n^2 times the population variance of h, in exact arithmetic.
ScaledVariance(h) == Len(h) * SumSquares(h) - SumSeq(h) * SumSeq(h)

\* mean_amount = sum(h) / len(h) is computed in IEEE-754 doubles.  For a
\* history of equal amounts x the result can differ from x in the last bit:
\* [0.1, 0.1, 0.1] gives 0.10000000000000002 and [0.7, 0.7, 0.7] gives
\* 0.6999999999999998.  The value is the sign of (computed mean - x); it is 0
\* for every other history of equal amounts drawn from the inputs used here.
FloatMeanError(h) ==
    IF h = <<1, 1, 1>> THEN 1
    ELSE IF h = <<7, 7, 7>> THEN -1
    ELSE 0

\* variance > 0 as the code evaluates it (line 244): the exact variance is
\* positive, or the computed mean is off the common value so that every
\* (x - mean_amount) ** 2 is a tiny positive number.
VariancePositive(h) == ScaledVariance(h) > 0 \/ FloatMeanError(h) # 0

\* Sign of |z_score| - p/q for naturals p, q > 0.  z_score is 0 unless the
\* variance is positive (lines 244, 247).  With an exact variance of zero but
\* a computed one above zero, std_dev is the rounding error e of the mean
\* (below 1e-15): z_score is -e/|e| when the current amount is the common
\* value, and beyond 1e13 in absolute value otherwise.
CompareAbsZ(current_amount, h, p, q) ==
    LET d == Len(h) * current_amount - SumSeq(h)
        V == ScaledVariance(h)
    IN  IF ~VariancePositive(h) THEN Sign(0 - p)
        ELSE IF V > 0 THEN Sign(q * q * d * d - p * p * V)
        ELSE IF current_amount = h[1] THEN Sign(q - p)
        ELSE 1

\* Sign of the returned z_score.
ZScoreSign(current_amount, h) ==
    IF ~VariancePositive(h) THEN 0
    ELSE IF ScaledVariance(h) > 0 THEN Sign(Len(h) * current_amount - SumSeq(h))
    ELSE IF current_amount = h[1] THEN 0 - FloatMeanError(h)
    ELSE Sign(current_amount - h[1])

\* The verdict with an inclusive threshold: abs(z_score) >= 2.5.
IsAnomalyInclusive(current_amount, h) == CompareAbsZ(current_amount, h, 5, 2) >= 0

\* is_anomaly = abs(z_score) > 2.5.
IsAnomaly(current_amount, h) == CompareAbsZ(current_amount, h, 5, 2) > 0

\* A score of two values only: 1.0 when abs(z_score) >= 3, else 0.5.
AnomalyScoreCoarse(current_amount, h) ==
    IF CompareAbsZ(current_amount, h, 3, 1) >= 0 THEN 100 ELSE 50

\* round(min(abs(z_score) / 3.0, 1.0), 2), in hundredths: 100 when
\* abs(z_score) >= 3, else the k with (2k-1)/200 <= abs(z_score)/3 < (2k+1)/200.
AnomalyScore(current_amount, h) ==
    IF CompareAbsZ(current_amount, h, 3, 1) >= 0 THEN 100
    ELSE CHOOSE k \in 0..100 :
            /\ k = 0 \/ CompareAbsZ(current_amount, h, 3 * (2 * k - 1), 200) >= 0
            /\ CompareAbsZ(current_amount, h, 3 * (2 * k + 1), 200) < 0

\* A verdict for the empty history that is no anomaly.
NoHistoryNoAnomaly ==
    [is_anomaly |-> FALSE, reason |-> "No historical data available",
     anomaly_score |-> 0]

\* The verdict returned when historical_amounts is empty (score 0.8).
NoHistoryVerdict ==
    [is_anomaly |-> TRUE, reason |-> "No historical data available",
     anomaly_score |-> 80]

\* detect_spending_anomalies(current_amount, historical_amounts,
\* merchant_category).  Of the returned z_score the sign is kept; its size
\* enters through CompareAbsZ.  anomaly_score is in hundredths.
detect_spending_anomalies(a) ==
    IF a.historical_amounts = <<>> THEN NoHistoryVerdict
    ELSE [is_anomaly |-> IsAnomaly(a.current_amount, a.historical_amounts),
          z_score_sign |-> ZScoreSign(a.current_amount, a.historical_amounts),
          anomaly_score |-> AnomalyScore(a.current_amount, a.historical_amounts),
          current_amount |-> a.current_amount]

(***************************************************************************)
(* analyze_geographic_pattern.  A transaction is a record with a timestamp *)
(* (minutes after 2024-01-17T12:00:00Z; the ISO strings of one day order   *)
(* as these numbers do) and a location.                                    *)
(***************************************************************************)

\* part in location, the Python substring test, for the locations used here.
Contains(part, location) ==
    <<part, location>> \in {<<"NY", "New York, NY">>, <<"CA", "Los Angeles, CA">>}

\* Insert t behind every element of the sorted sequence s whose timestamp is
\* not larger: sorted() is stable.
RECURSIVE InsertByTimestamp(_, _)
InsertByTimestamp(t, s) ==
    IF s = <<>> THEN <<t>>
    ELSE IF t.timestamp < Head(s).timestamp THEN <<t>> \o s
    ELSE <<Head(s)>> \o InsertByTimestamp(t, Tail(s))

\* sorted(transactions, key=lambda x: x.get('timestamp', '')).
RECURSIVE SortByTimestamp(_)
SortByTimestamp(transactions) ==
    IF transactions = <<>> THEN <<>>
    ELSE InsertByTimestamp(transactions[Len(transactions)],
                           SortByTimestamp(SubSeq(transactions, 1,
                                                  Len(transactions) - 1)))

\* time_diff_minutes = 30  # Simplified for demo
TimeDiffMinutes(prev_txn, curr_txn) == 30

\* The finding appended for an impossible pair.
GeographicIssue(prev_txn, curr_txn) ==
    [issue |-> "impossible_travel",
     from_location |-> prev_txn.location,
     to_location |-> curr_txn.location,
     time_difference_minutes |-> TimeDiffMinutes(prev_txn, curr_txn),
     minimum_travel_time_minutes |-> 300]

\* The loop body for the pair (sorted_txns[i-1], sorted_txns[i]): the
\* findings it appends.
PairIssues(prev_txn, curr_txn) ==
    IF /\ prev_txn.location # curr_txn.location
       /\ Contains("NY", prev_txn.location)
       /\ Contains("CA", curr_txn.location)
       /\ TimeDiffMinutes(prev_txn, curr_txn) < 300
    THEN <<GeographicIssue(prev_txn, curr_txn)>>
    ELSE <<>>

\* geographic_issues after the loop has handled pairs 1 .. i of sorted_txns.
RECURSIVE IssuesUpTo(_, _)
IssuesUpTo(sorted_txns, i) ==
    IF i < 2 THEN <<>>
    ELSE IssuesUpTo(sorted_txns, i - 1)
             \o PairIssues(sorted_txns[i - 1], sorted_txns[i])

\* return {"analysis": "Insufficient data for geographic analysis"}
InsufficientData == [analysis |-> "Insufficient data for geographic analysis"]

\* analyze_geographic_pattern(transactions).  analysis_summary is kept as
\* the number of findings it prints.
analyze_geographic_pattern(a) ==
    IF Len(a.transactions) < 2 THEN InsufficientData
    ELSE LET sorted_txns == SortByTimestamp(a.transactions)
             geographic_issues == IssuesUpTo(sorted_txns, Len(sorted_txns))
         IN  [geographic_issues |-> geographic_issues,
              risk_level |-> IF geographic_issues # <<>> THEN "HIGH" ELSE "LOW",
              analysis_summary |-> Len(geographic_issues)]

(***************************************************************************)
(* Tool calls.  The server serves one call after another; each call        *)
(* leaves its arguments and its result in last_call.                       *)
(***************************************************************************)

\* Longest history of amounts passed to detect_spending_anomalies.
MaxHistory == 3

\* Largest batch of transactions passed to analyze_geographic_pattern.
MaxBatch == 3

\* Number of calls recorded in tool_log.
MaxCalls == 3

\* All sequences over S of length at most n.
SeqsUpTo(S, n) == UNION {[1..k -> S] : k \in 0..n}

Categories == DOMAIN MERCHANT_RISK_SCORES_INIT \cup {"unknown_category"}

Amounts == {0, 11, 1000, 1001, 2500, 2501, 5000, 5001}

Baselines == {-100, 0, 1, 500}

\* Arguments of calculate_risk_score: amounts and baselines in dollars, with
\* the ratios 2, 5 and 10 and their neighbours, baselines at and below zero,
\* hours inside and outside 0..23.
RiskInputs ==
    [amount : Amounts,
     merchant_category : Categories,
     location : {"London, UK", "Unknown", "VPN Location"},
     time_hour : -1..24,
     user_avg_spending : Baselines,
     is_international : BOOLEAN]

\* Arguments of check_merchant_status: the blacklisted names, a name that is
\* not listed, and one that differs from a listed name in its case only.
MerchantInputs ==
    [merchant_name : BLACKLISTED_MERCHANTS_INIT
                         \cup {"Corner Grocery", "suspicious online store"},
     merchant_category : Categories]

\* Arguments of detect_spending_anomalies, amounts in tenths of a dollar.
AnomalyInputs ==
    [current_amount : {1, 7, 10, 45, 46, 1000},
     historical_amounts : SeqsUpTo({1, 7, 10, 30}, MaxHistory),
     merchant_category : {"grocery", "luxury_goods"}]

\* Arguments of analyze_geographic_pattern.
GeographicInputs ==
    [transactions :
        SeqsUpTo([timestamp : {0, 30, 600},
                  location : {"New York, NY", "Los Angeles, CA", "Chicago, IL"}],
                 MaxBatch)]

\* The table after MERCHANT_RISK_SCORES.setdefault(merchant_category, 0.5).
ScoresAfterSetdefault(merchant_category) ==
    IF merchant_category \in DOMAIN MERCHANT_RISK_SCORES THEN MERCHANT_RISK_SCORES
    ELSE MERCHANT_RISK_SCORES @@ (merchant_category :> 5)

\* The table after MERCHANT_RISK_SCORES.get(merchant_category, 0.5).
ScoresAfterGet(merchant_category) == MERCHANT_RISK_SCORES

\* A call that has arrived and is not served yet.
PendingCall(tool, a) == [tool |-> tool, args |-> a, result |-> <<>>, done |-> FALSE]

\* The calls a client may send, with arguments from the full input sets.
ToolCalls ==
    {PendingCall("calculate_risk_score", a) : a \in RiskInputs}
        \cup {PendingCall("check_merchant_status", a) : a \in MerchantInputs}
        \cup {PendingCall("analyze_geographic_pattern", a) : a \in GeographicInputs}
        \cup {PendingCall("detect_spending_anomalies", a) : a \in AnomalyInputs}

\* The served call: its result is filled in and it is appended to tool_log.
Served(result) == [last_call EXCEPT !.result = result, !.done = TRUE]

CalculateRiskScore ==
    /\ last_call.tool = "calculate_risk_score" /\ ~last_call.done
    /\ last_call' = Served(calculate_risk_score(last_call.args))
    /\ tool_log' = Append(tool_log, last_call')
    /\ MERCHANT_RISK_SCORES' = ScoresAfterGet(last_call.args.merchant_category)
    /\ UNCHANGED <<BLACKLISTED_MERCHANTS, HIGH_RISK_LOCATIONS>>
    /\ UNCHANGED coordVars
    /\ UNCHANGED serviceVars

CheckMerchantStatus ==
    /\ last_call.tool = "check_merchant_status" /\ ~last_call.done
    /\ last_call' = Served(check_merchant_status(last_call.args))
    /\ tool_log' = Append(tool_log, last_call')
    /\ MERCHANT_RISK_SCORES' = ScoresAfterGet(last_call.args.merchant_category)
    /\ UNCHANGED <<BLACKLISTED_MERCHANTS, HIGH_RISK_LOCATIONS>>
    /\ UNCHANGED coordVars
    /\ UNCHANGED serviceVars

AnalyzeGeographicPattern ==
    /\ last_call.tool = "analyze_geographic_pattern" /\ ~last_call.done
    /\ last_call' = Served(analyze_geographic_pattern(last_call.args))
    /\ tool_log' = Append(tool_log, last_call')
    /\ UNCHANGED tables
    /\ UNCHANGED coordVars
    /\ UNCHANGED serviceVars

DetectSpendingAnomalies ==
    /\ last_call.tool = "detect_spending_anomalies" /\ ~last_call.done
    /\ last_call' = Served(detect_spending_anomalies(last_call.args))
    /\ tool_log' = Append(tool_log, last_call')
    /\ UNCHANGED tables
    /\ UNCHANGED coordVars
    /\ UNCHANGED serviceVars

\* The server dispatches the call in flight to its tool.
ServeCall ==
    \/ CalculateRiskScore
    \/ CheckMerchantStatus
    \/ AnalyzeGeographicPattern
    \/ DetectSpendingAnomalies

\* One call, with any arguments of the input sets, has arrived at the freshly
\* started server; the coordinator is not running.
ToolServerInit ==
    /\ CoordinatorInit
    /\ BLACKLISTED_MERCHANTS = BLACKLISTED_MERCHANTS_INIT
    /\ HIGH_RISK_LOCATIONS = HIGH_RISK_LOCATIONS_INIT
    /\ MERCHANT_RISK_SCORES = MERCHANT_RISK_SCORES_INIT
    /\ last_call \in ToolCalls
    /\ tool_log = <<>>
    /\ ServiceInit

ToolNext == ServeCall

ToolSpec == ToolServerInit /\ [][ToolNext]_vars

\* A further call arrives once the previous one is served.
ReceiveCall(c) ==
    /\ last_call.done
    /\ Len(tool_log) < MaxCalls
    /\ last_call' = c
    /\ UNCHANGED <<tables, tool_log>>
    /\ UNCHANGED coordVars
    /\ UNCHANGED serviceVars

\* A few calls of each tool, to be repeated and interleaved.
PurityCalls ==
    {PendingCall("calculate_risk_score",
                 [amount |-> 5000, merchant_category |-> c, location |-> "London, UK",
                  time_hour |-> 3, user_avg_spending |-> 500,
                  is_international |-> TRUE]) : c \in {"luxury_goods", "unknown_category"}}
        \cup {PendingCall("check_merchant_status",
                          [merchant_name |-> "Suspicious Online Store",
                           merchant_category |-> c]) :
                  c \in {"online_retail", "unknown_category"}}
        \cup {PendingCall("analyze_geographic_pattern", [transactions |-> t]) :
                  t \in {<<>>, <<[timestamp |-> 0, location |-> "New York, NY"],
                                 [timestamp |-> 30, location |-> "Los Angeles, CA"]>>}}
        \cup {PendingCall("detect_spending_anomalies",
                          [current_amount |-> 45, historical_amounts |-> h,
                           merchant_category |-> "grocery"]) :
                  h \in {<<>>, <<10, 30>>}}

\* A sequence of at most MaxCalls calls, served one after another.
PurityNext ==
    \/ \E c \in PurityCalls : ReceiveCall(c)
    \/ ServeCall

PuritySpec == Init /\ [][PurityNext]_vars

(***************************************************************************)
(* Claims about the tool server.                                           *)
(***************************************************************************)

\* The call in flight has been served by the given tool.
ServedBy(tool) == last_call.done /\ last_call.tool = tool

\* C11: for every input, risk_score is min(100, sum of the five terms); the
\* merchant term is 25 times the table risk of the category (0.5 for a
\* category not in the table); the cross-border term is 10 iff the flag is
\* set; the score is within [0,100] and each term within its range.
C11_ScoreIsCappedSumOfTerms ==
    ServedBy("calculate_risk_score") =>
        LET a == last_call.args
            r == last_call.result
            f == last_call.result.risk_factors
        IN  /\ r.risk_score = Min(f.amount_risk + f.merchant_risk + f.location_risk
                                  + f.time_risk + f.international_risk, 1000)
            /\ f.merchant_risk =
                 25 * (IF a.merchant_category \in DOMAIN MERCHANT_RISK_SCORES_INIT
                       THEN MERCHANT_RISK_SCORES_INIT[a.merchant_category] ELSE 5)
            /\ (f.international_risk = 100) <=> a.is_international
            /\ r.risk_score \in 0..1000
            /\ f.amount_risk \in 0..300
            /\ f.merchant_risk \in 0..250
            /\ f.location_risk \in 0..200
            /\ f.time_risk \in 0..150
            /\ f.international_risk \in {0, 100}

\* C11 witness: an international call from a high-risk location with a
\* category missing from the table has been scored.
C11_Witness ==
    /\ ServedBy("calculate_risk_score")
    /\ last_call.args.is_international
    /\ last_call.args.location = "VPN Location"
    /\ last_call.args.merchant_category = "unknown_category"
    /\ last_call.result.risk_factors.merchant_risk = 125

\* C12: the level is HIGH iff the total is at least 70, MEDIUM iff it is at
\* least 40 and below 70, LOW iff it is below 40.
C12_LevelThresholdsInclusive ==
    ServedBy("calculate_risk_score") =>
        LET r == last_call.result
        IN  /\ (r.risk_level = "HIGH") <=> (r.risk_score >= 700)
            /\ (r.risk_level = "MEDIUM") <=> (r.risk_score >= 400 /\ r.risk_score < 700)
            /\ (r.risk_level = "LOW") <=> (r.risk_score < 400)

\* C12 witness: a call with a total of exactly 70 has been scored HIGH.
C12_Witness ==
    /\ ServedBy("calculate_risk_score")
    /\ last_call.result.risk_score = 700
    /\ last_call.result.risk_level = "HIGH"

\* C13: for a positive baseline the amount term is 30 if amount/baseline > 10,
\* 20 if it is in (5,10], 10 if it is in (2,5], 0 if it is at most 2; it is
\* non-decreasing in the ratio and within [0,30].
C13_AmountTermIsStepFunction ==
    (ServedBy("calculate_risk_score") /\ last_call.args.user_avg_spending > 0) =>
        LET amount == last_call.args.amount
            baseline == last_call.args.user_avg_spending
            term == last_call.result.risk_factors.amount_risk
        IN  /\ term = (IF amount > 10 * baseline THEN 300
                       ELSE IF amount > 5 * baseline THEN 200
                       ELSE IF amount > 2 * baseline THEN 100
                       ELSE 0)
            /\ \A amount2 \in Amounts, baseline2 \in Baselines :
                  (baseline2 > 0 /\ amount2 * baseline >= amount * baseline2)
                      => AmountRisk(amount2, baseline2) >= term
            /\ term \in 0..300

\* C13 witness: a call whose amount is exactly ten times a positive baseline
\* has been given the amount term 20.
C13_Witness ==
    /\ ServedBy("calculate_risk_score")
    /\ last_call.args.user_avg_spending > 0
    /\ last_call.args.amount = 10 * last_call.args.user_avg_spending
    /\ last_call.result.risk_factors.amount_risk = 200

\* The call of the worked example (test_individual_tools).
ExampleRiskCall ==
    [amount |-> 5000, merchant_category |-> "luxury_goods", location |-> "London, UK",
     time_hour |-> 3, user_avg_spending |-> 500, is_international |-> TRUE]

\* C14 as stated: the example call returns a total of at least 70, level HIGH,
\* and the terms amount 20, merchant 17.5, location 20, time 15, cross-border 10.
C14_ExampleBreakdownAsStated ==
    (ServedBy("calculate_risk_score") /\ last_call.args = ExampleRiskCall) =>
        /\ last_call.result.risk_score >= 700
        /\ last_call.result.risk_level = "HIGH"
        /\ last_call.result.risk_factors =
             [amount_risk |-> 200, merchant_risk |-> 175, location_risk |-> 200,
              time_risk |-> 150, international_risk |-> 100]

\* C14 amended: the example call returns the total 72.5, level HIGH, and the
\* terms amount 20, merchant 17.5, location 10 (London is no high-risk
\* location; 10 for the cross-border flag), time 15, cross-border 10.
C14_ExampleBreakdown ==
    (ServedBy("calculate_risk_score") /\ last_call.args = ExampleRiskCall) =>
        /\ last_call.result.risk_score = 725
        /\ last_call.result.risk_level = "HIGH"
        /\ last_call.result.risk_factors =
             [amount_risk |-> 200, merchant_risk |-> 175, location_risk |-> 100,
              time_risk |-> 150, international_risk |-> 100]

\* C14 witness: the example call has been served.
C14_Witness ==
    /\ ServedBy("calculate_risk_score")
    /\ last_call.args = ExampleRiskCall
    /\ last_call.result.max_possible_score = 1000

\* C15: in any sequence of calls, two calls of the same tool with equal
\* arguments return equal results whatever was called in between, and the
\* three module-level tables are never modified.
C15_ToolsArePure ==
    /\ \A i, j \in 1..Len(tool_log) :
          (tool_log[i].tool = tool_log[j].tool /\ tool_log[i].args = tool_log[j].args)
              => tool_log[i].result = tool_log[j].result
    /\ BLACKLISTED_MERCHANTS = BLACKLISTED_MERCHANTS_INIT
    /\ HIGH_RISK_LOCATIONS = HIGH_RISK_LOCATIONS_INIT
    /\ MERCHANT_RISK_SCORES = MERCHANT_RISK_SCORES_INIT

\* C15 witness: a call has been repeated with equal arguments after a call
\* of another tool that looked up a category missing from the table.
C15_Witness ==
    /\ Len(tool_log) = 3
    /\ tool_log[1].tool = "calculate_risk_score"
    /\ tool_log[3] = tool_log[1]
    /\ tool_log[2].tool = "check_merchant_status"
    /\ tool_log[2].args.merchant_category = "unknown_category"

\* C16: for an empty history and any current amount the verdict is
\* anomaly = true with anomaly score exactly 0.8.
C16_EmptyHistoryIsAnomaly ==
    (ServedBy("detect_spending_anomalies")
        /\ last_call.args.historical_amounts = <<>>) =>
        /\ last_call.result.is_anomaly = TRUE
        /\ last_call.result.anomaly_score = 80

\* C16 witness: a call with an empty history and the largest current amount
\* has been served.
C16_Witness ==
    /\ ServedBy("detect_spending_anomalies")
    /\ last_call.args.historical_amounts = <<>>
    /\ last_call.args.current_amount = 1000
    /\ last_call.result.reason = "No historical data available"

\* All entries of the non-empty sequence h are equal.
AllEqual(h) == h # <<>> /\ \A i \in 1..Len(h) : h[i] = h[1]

\* C17: for a non-empty history whose entries are all equal and any current
\* amount, the z-score is 0 and anomaly is false.
C17_ZeroVarianceIsNoAnomaly ==
    (ServedBy("detect_spending_anomalies")
        /\ AllEqual(last_call.args.historical_amounts)) =>
        /\ last_call.result.z_score_sign = 0
        /\ last_call.result.is_anomaly = FALSE

\* C18 as stated: for a history with positive variance, anomaly is true iff
\* |z| > 2.5, and the anomaly score is min(|z|/3, 1), within [0,1].  With
\* z = d / sqrt(V): |z| > 2.5 iff 4 d^2 > 25 V, and score/100 = |z|/3 iff
\* 9 V score^2 = 10000 d^2.
C18_ScoreIsExactlyZOverThree ==
    (ServedBy("detect_spending_anomalies")
        /\ last_call.args.historical_amounts # <<>>
        /\ ScaledVariance(last_call.args.historical_amounts) > 0) =>
        LET h == last_call.args.historical_amounts
            V == ScaledVariance(h)
            d == Len(h) * last_call.args.current_amount - SumSeq(h)
            score == last_call.result.anomaly_score
        IN  /\ last_call.result.is_anomaly <=> (4 * d * d > 25 * V)
            /\ IF d * d >= 9 * V THEN score = 100
               ELSE 9 * V * score * score = 10000 * d * d
            /\ score \in 0..100

\* C18 amended: for a history with positive variance, anomaly is true iff
\* |z| > 2.5, and the returned anomaly score is min(|z|/3, 1) rounded to two
\* decimals (it differs from it by at most 0.005), within [0,1].
C18_ScoreIsRoundedZOverThree ==
    (ServedBy("detect_spending_anomalies")
        /\ last_call.args.historical_amounts # <<>>
        /\ ScaledVariance(last_call.args.historical_amounts) > 0) =>
        LET h == last_call.args.historical_amounts
            V == ScaledVariance(h)
            d == Len(h) * last_call.args.current_amount - SumSeq(h)
            score == last_call.result.anomaly_score
        IN  /\ last_call.result.is_anomaly <=> (4 * d * d > 25 * V)
            /\ score \in 0..100
            /\ IF d * d >= 9 * V THEN score = 100
               ELSE /\ score = 0
                       \/ 9 * V * (2 * score - 1) * (2 * score - 1) <= 40000 * d * d
                    /\ 40000 * d * d <= 9 * V * (2 * score + 1) * (2 * score + 1)

\* C18 witness: a call whose z-score is exactly 2.5 has been served and is
\* no anomaly, with the score 0.83.
C18_Witness ==
    /\ ServedBy("detect_spending_anomalies")
    /\ last_call.args.historical_amounts = <<10, 30>>
    /\ last_call.args.current_amount = 45
    /\ last_call.result.is_anomaly = FALSE
    /\ last_call.result.anomaly_score = 83

\* The elapsed time between two transactions, from their timestamps.
ElapsedMinutes(prev_txn, curr_txn) == curr_txn.timestamp - prev_txn.timestamp

\* The minimum travel time between two locations: 300 minutes from New York
\* to California, the one pair for which a travel time is known; no other
\* pair is counted as infeasible.
MinimumTravelTime(from_location, to_location) ==
    IF Contains("NY", from_location) /\ Contains("CA", to_location) THEN 300 ELSE 0

\* C19: a pair of transactions consecutive in timestamp order with different
\* locations is reported iff the time elapsed between them is below the
\* minimum travel time of the pair; so the findings are as many as such pairs.
C19_FlaggedIffElapsedBelowTravelTime ==
    (ServedBy("analyze_geographic_pattern")
        /\ Len(last_call.args.transactions) >= 2) =>
        LET s == SortByTimestamp(last_call.args.transactions)
            infeasible ==
                {i \in 2..Len(s) :
                    /\ s[i - 1].location # s[i].location
                    /\ ElapsedMinutes(s[i - 1], s[i])
                         < MinimumTravelTime(s[i - 1].location, s[i].location)}
        IN  Len(last_call.result.geographic_issues) = Cardinality(infeasible)

\* C20: for zero or one transaction the result is an empty list of findings,
\* shaped as the result of a batch without an infeasible pair.
C20_FewTransactionsGiveEmptyFindings ==
    (ServedBy("analyze_geographic_pattern")
        /\ Len(last_call.args.transactions) < 2) =>
        /\ DOMAIN last_call.result
             = {"geographic_issues", "risk_level", "analysis_summary"}
        /\ last_call.result.geographic_issues = <<>>

\* The risk of a category under the configured table: 0.5 when it is not in
\* the table (in tenths).
ConfiguredCategoryRisk(merchant_category) ==
    IF merchant_category \in DOMAIN MERCHANT_RISK_SCORES_INIT
    THEN MERCHANT_RISK_SCORES_INIT[merchant_category]
    ELSE 5

\* C21: is_blacklisted is true iff the name is exactly a member of the
\* blacklist; verification is "verified" iff the merchant is not blacklisted
\* and its category risk is below 0.7; the level is HIGH iff it is
\* blacklisted or its category risk is above 0.7; so "Suspicious Online
\* Store"/"online_retail" is blacklisted, HIGH and unverified.
C21_MerchantStatusRule ==
    ServedBy("check_merchant_status") =>
        LET a == last_call.args
            r == last_call.result
            risk == ConfiguredCategoryRisk(last_call.args.merchant_category)
        IN  /\ r.is_blacklisted <=> (a.merchant_name \in BLACKLISTED_MERCHANTS_INIT)
            /\ r.verification_status \in {"verified", "unverified"}
            /\ (r.verification_status = "verified") <=> (~r.is_blacklisted /\ risk < 7)
            /\ r.risk_level \in {"HIGH", "LOW"}
            /\ (r.risk_level = "HIGH") <=> (r.is_blacklisted \/ risk > 7)
            /\ (a.merchant_name = "Suspicious Online Store"
                    /\ a.merchant_category = "online_retail")
                 => (/\ r.is_blacklisted
                     /\ r.risk_level = "HIGH"
                     /\ r.verification_status = "unverified")

\* C21 witness: the status of "Suspicious Online Store"/"online_retail" has
\* been returned: blacklisted, HIGH, unverified.
C21_Witness ==
    /\ ServedBy("check_merchant_status")
    /\ last_call.args.merchant_name = "Suspicious Online Store"
    /\ last_call.args.merchant_category = "online_retail"
    /\ last_call.result.is_blacklisted
    /\ last_call.result.risk_level = "HIGH"
    /\ last_call.result.verification_status = "unverified"

(***************************************************************************)
(* Specialist endpoints seen from the service (multi_agent_fraud_system.py *)
(* lines 102-131 and 183-231).  RiskAssessmentRequest.transaction is a     *)
(* Dict[str, Any] and PatternAnalysisRequest.transactions a list of such   *)
(* dicts: pydantic checks that they are dicts, not what they hold.  The    *)
(* handler pastes them into a prompt, calls self.agent and wraps the text. *)
(* JSON values are kept as the strings they are written with.              *)
(***************************************************************************)

\* Transactions a caller may send: with or without a transaction_id, with an
\* amount that is positive, negative or no number, with a timestamp that is
\* ISO 8601 or not.
ServiceTransactions ==
    [transaction_id : {"TXN_001", "absent"},
     amount : {"45.67", "-20.00", "abc"},
     timestamp : {"2024-01-15T14:30:00Z", "yesterday"}]

\* A request that has arrived at an endpoint and is not answered yet.
ServiceRequest(service, transactions) ==
    [service |-> service, transactions |-> transactions, status |-> 0]

\* The requests a caller may send: one transaction to /assess_risk, a batch
\* to /analyze_patterns.
ServiceRequests ==
    {ServiceRequest("assess_risk", <<t>>) : t \in ServiceTransactions}
        \cup {ServiceRequest("analyze_patterns", b) :
                  b \in SeqsUpTo(ServiceTransactions, MaxBatch)}

\* transaction.get("transaction_id", "unknown")
GetTransactionId(t) ==
    IF t.transaction_id = "absent" THEN "unknown" ELSE t.transaction_id

\* AnalysisResponse(agent_id=..., analysis_result=..., confidence_score=...,
\* timestamp=...) returned with HTTP 200; detail is the set of fields of the
\* transaction that an error names (none).  confidence_score in hundredths.
ServiceAnswer(agent_id, analysis_result, confidence_score) ==
    [service |-> service_call.service, transactions |-> service_call.transactions,
     status |-> 200, agent_id |-> agent_id, analysis_result |-> analysis_result,
     confidence_score |-> confidence_score, detail |-> {}]

\* raise HTTPException(status_code=500, detail=str(e)): the text of an
\* exception of self.agent names no field of the transaction.
ServiceError ==
    [service |-> service_call.service, transactions |-> service_call.transactions,
     status |-> 500, agent_id |-> "none", analysis_result |-> <<>>,
     confidence_score |-> 0, detail |-> {}]

\* POST /assess_risk: self.agent(analysis_prompt) returns a text or raises.
AssessRisk ==
    /\ service_call.service = "assess_risk" /\ service_call.status = 0
    /\ \E returns \in BOOLEAN :
          service_call' =
              IF returns
              THEN ServiceAnswer("risk_assessment_agent",
                                 [risk_assessment |-> "text",
                                  transaction_id |->
                                      GetTransactionId(service_call.transactions[1])],
                                 90)
              ELSE ServiceError
    /\ UNCHANGED coordVars
    /\ UNCHANGED toolVars

\* POST /analyze_patterns: self.agent(analysis_prompt) returns a text or raises.
AnalyzePatterns ==
    /\ service_call.service = "analyze_patterns" /\ service_call.status = 0
    /\ \E returns \in BOOLEAN :
          service_call' =
              IF returns
              THEN ServiceAnswer("pattern_analysis_agent",
                                 [pattern_analysis |-> "text",
                                  transaction_count |-> Len(service_call.transactions),
                                  analysis_type |-> "fraud_patterns"],
                                 85)
              ELSE ServiceError
    /\ UNCHANGED coordVars
    /\ UNCHANGED toolVars

\* One request has arrived at a specialist endpoint; coordinator and tool
\* server are not running.
ServiceSpecInit ==
    /\ CoordinatorInit
    /\ ToolInit
    /\ service_call \in ServiceRequests

ServiceNext == AssessRisk \/ AnalyzePatterns

ServiceSpec == ServiceSpecInit /\ [][ServiceNext]_vars

\* The fields that make a transaction malformed: a missing transaction id, an
\* amount that is negative or no number, a timestamp that cannot be parsed.
MalformedFields(t) ==
    {f \in {"transaction_id", "amount", "timestamp"} :
        \/ f = "transaction_id" /\ t.transaction_id = "absent"
        \/ f = "amount" /\ t.amount # "45.67"
        \/ f = "timestamp" /\ t.timestamp # "2024-01-15T14:30:00Z"}

\* C22: a request to a specialist service with a malformed transaction is
\* rejected with a validation error that names each offending field, and is
\* never answered with a normal analysis result.
C22_MalformedTransactionIsRejected ==
    (/\ service_call.status # 0
     /\ \E i \in 1..Len(service_call.transactions) :
            MalformedFields(service_call.transactions[i]) # {}) =>
        /\ service_call.status \in {400, 422}
        /\ service_call.analysis_result = <<>>
        /\ \A i \in 1..Len(service_call.transactions) :
              MalformedFields(service_call.transactions[i]) \subseteq service_call.detail

\* C23: with a baseline <= 0 the ratio is the amount itself, so the amount
\* term is the one the thresholds give for ratio = amount; any amount > 10
\* yields the maximum amount term 30.
C23_NonPositiveBaselineUsesAmount ==
    (ServedBy("calculate_risk_score") /\ last_call.args.user_avg_spending <= 0) =>
        LET amount == last_call.args.amount
        IN  last_call.result.risk_factors.amount_risk =
                (IF amount > 10 THEN 300
                 ELSE IF amount > 5 THEN 200
                 ELSE IF amount > 2 THEN 100
                 ELSE 0)

\* C24: the location term is 20 when the location is in the high-risk set
\* (with or without the cross-border flag), 10 when it is not and the flag is
\* set, 0 otherwise; it never exceeds 20.
C24_LocationTermRule ==
    ServedBy("calculate_risk_score") =>
        LET a == last_call.args
            term == last_call.result.risk_factors.location_risk
        IN  /\ term = (IF a.location \in HIGH_RISK_LOCATIONS_INIT THEN 200
                       ELSE IF a.is_international THEN 100
                       ELSE 0)
            /\ term <= 200

\* C24 witness: an international call from a high-risk location has been
\* given the location term 20.
C24_Witness ==
    /\ ServedBy("calculate_risk_score")
    /\ last_call.args.location = "Unknown"
    /\ last_call.args.is_international
    /\ last_call.result.risk_factors.location_risk = 200

\* C25: the time term is 15 for an hour < 6 or > 23, 8 for an hour not in
\* that range that is < 8 or > 22, 0 otherwise; for the hours 0..23 it is 15
\* for 0-5, 8 for 6, 7 and 23, and 0 for 8-22.
C25_TimeTermRule ==
    ServedBy("calculate_risk_score") =>
        LET hour == last_call.args.time_hour
            term == last_call.result.risk_factors.time_risk
        IN  /\ term = (IF hour < 6 \/ hour > 23 THEN 150
                       ELSE IF hour < 8 \/ hour > 22 THEN 80
                       ELSE 0)
            /\ hour \in 0..5 => term = 150
            /\ hour \in {6, 7, 23} => term = 80
            /\ hour \in 8..22 => term = 0

\* C25 witness: a call at hour 23 has been given the time term 8.
C25_Witness ==
    /\ ServedBy("calculate_risk_score")
    /\ last_call.args.time_hour = 23
    /\ last_call.result.risk_factors.time_risk = 80

\* The batch b taken in the order p (a permutation of its indices).
Permuted(b, p) == [i \in 1..Len(b) |-> b[p[i]]]

\* The permutations of 1..n.
IndexPermutations(n) ==
    {p \in [1..n -> 1..n] : \A i, j \in 1..n : p[i] = p[j] => i = j}

\* C26: the findings do not depend on the order in which the transactions
\* of a batch are supplied: every permutation of the batch yields the same
\* findings, also when two transactions carry the same timestamp.
C26_FindingsIgnoreInputOrder ==
    ServedBy("analyze_geographic_pattern") =>
        \A p \in IndexPermutations(Len(last_call.args.transactions)) :
            analyze_geographic_pattern(
                [transactions |-> Permuted(last_call.args.transactions, p)])
              = last_call.result

\* The sum of the four terms other than the amount term.
OtherTerms(f) ==
    f.merchant_risk + f.location_risk + f.time_risk + f.international_risk

\* C27: the level is HIGH only when the amount term is at least 10: with the
\* amount term 0 the other four terms sum to at most 67.5, so a transaction
\* whose amount is at most twice a positive baseline, or whose baseline is
\* <= 0, is never HIGH.
C27_HighNeedsAmountTerm ==
    ServedBy("calculate_risk_score") =>
        LET a == last_call.args
            r == last_call.result
        IN  /\ r.risk_level = "HIGH" => r.risk_factors.amount_risk >= 100
            /\ r.risk_factors.amount_risk = 0 => OtherTerms(r.risk_factors) <= 675
            /\ (\/ a.user_avg_spending <= 0
                \/ a.amount <= 2 * a.user_avg_spending) => r.risk_level # "HIGH"

\* C27 witness: a call with amount term 0 and the other terms at their
\* maximum, 67.5 in total, has been scored below HIGH.
C27_Witness ==
    /\ ServedBy("calculate_risk_score")
    /\ last_call.args.amount <= 2 * last_call.args.user_avg_spending
    /\ last_call.result.risk_factors.amount_risk = 0
    /\ last_call.result.risk_score = 675
    /\ last_call.result.risk_level = "MEDIUM"

\* C28: with all other inputs equal, setting the cross-border flag never
\* lowers the score: it raises the total by exactly 20 when the location is
\* not in the high-risk set and by exactly 10 when it is.
C28_CrossBorderRaisesScore ==
    ServedBy("calculate_risk_score") =>
        LET a == last_call.args
            unset == calculate_risk_score([a EXCEPT !.is_international = FALSE])
            set == calculate_risk_score([a EXCEPT !.is_international = TRUE])
        IN  /\ last_call.result = (IF a.is_international THEN set ELSE unset)
            /\ set.risk_score >= unset.risk_score
            /\ set.risk_score - unset.risk_score =
                 (IF a.location \in HIGH_RISK_LOCATIONS_INIT THEN 100 ELSE 200)

\* C28 witness: an international call from a location that is not high-risk
\* has been scored 20 above the same call without the flag.
C28_Witness ==
    /\ ServedBy("calculate_risk_score")
    /\ last_call.args.is_international
    /\ last_call.args.location = "London, UK"
    /\ last_call.result.risk_score =
         calculate_risk_score([last_call.args EXCEPT !.is_international = FALSE]).risk_score
             + 200

\* C29: under the configured table the uncapped sum of the five terms is at
\* most 97.5 for every input, so the cap at 100 never changes the value and
\* risk_score equals the plain sum of the reported risk factors.
C29_CapNeverBinds ==
    ServedBy("calculate_risk_score") =>
        LET f == last_call.result.risk_factors
        IN  /\ f.amount_risk + OtherTerms(f) <= 975
            /\ last_call.result.risk_score = f.amount_risk + OtherTerms(f)

\* C29 witness: a call with every term at its maximum has been scored 97.5.
C29_Witness ==
    /\ ServedBy("calculate_risk_score")
    /\ last_call.result.risk_factors =
         [amount_risk |-> 300, merchant_risk |-> 225, location_risk |-> 200,
          time_risk |-> 150, international_risk |-> 100]
    /\ last_call.result.risk_score = 975

\* C30: in every verdict, anomaly = true implies an anomaly score of at
\* least 0.8, exactly 0.8 only for an empty history; a verdict with a score
\* below 0.8 has anomaly = false.
C30_AnomalyImpliesHighScore ==
    ServedBy("detect_spending_anomalies") =>
        LET r == last_call.result
        IN  /\ r.is_anomaly => r.anomaly_score >= 80
            /\ (r.is_anomaly /\ r.anomaly_score = 80)
                 => last_call.args.historical_amounts = <<>>
            /\ r.anomaly_score < 80 => ~r.is_anomaly

\* C30 witness: a call with a history of positive variance has been judged an
\* anomaly with a score between 0.8 and 1.
C30_Witness ==
    /\ ServedBy("detect_spending_anomalies")
    /\ last_call.args.historical_amounts = <<10, 30>>
    /\ last_call.args.current_amount = 46
    /\ last_call.result.is_anomaly
    /\ last_call.result.anomaly_score = 87

====
